---- MODULE Spec2Model ----
(***************************************************************************)
(* Request coordinator, upstream client, week inference and standings of   *)
(* src/lib/sleeper.ts and the Matchup Deriver of src/app/page.tsx, as a    *)
(* state machine.                                                          *)
(*                                                                         *)
(* Time is in milliseconds.  No wall clock is kept: every setTimeout is a  *)
(* countdown (its remaining delay), and Date.now() - lastRequestTime is    *)
(* kept as sinceLast, saturating at minInterval, the only value it is      *)
(* compared with.  A timer fires when its countdown reaches 0 and time     *)
(* does not pass while a due timer is waiting.                             *)
(***************************************************************************)
EXTENDS Integers, Sequences, FiniteSets, TLC

VARIABLES
  requestCache,  \* Map<string, Promise>: endpoint -> promise id
  evict,         \* pending setTimeout(() => requestCache.delete(key), 300000)
  promises,      \* every promise RequestQueue.add created, by id
  queue,         \* RequestQueue.queue: request functions not yet started
  processing,    \* RequestQueue.processing
  sinceLast,     \* Date.now() - RequestQueue.lastRequestTime, saturating
  loops,         \* activations of RequestQueue.process, by where they wait
  calls,         \* history: the callers' invocations and what they were handed
  started,       \* history: promise ids in the order their request started
  enq,           \* history: promise ids in the order add() enqueued them
  lastGap,       \* history: time since the previous start, at the latest start
  wkPc,          \* getLatestWeekWithData: where the invocation is
  wkCalc,        \* getLatestWeekWithData: calculatedCurrentWeek
  wkWeek,        \* getLatestWeekWithData: the loop variable `week`
  wkResult,      \* getLatestWeekWithData: the value returned (0: none yet)
  wkVia,         \* history: the return statement that produced wkResult
  wkLog,         \* history: the weeks getMatchups was called for, in order
  wkFirstData,   \* history: the first fetched week that had data (0: none)
  wkLastFailed,  \* history: the last week whose fetch failed (0: none)
  wkLeague, wkSettled,      \* history: how the promise of getLeague settled in the fallback
  wkPrev,        \* history: the value the previous invocation returned (0: none)
  upstream,      \* the Sleeper side: the clock, the weeks that have data, the league type
  rosters,       \* getStandingsData: the rosters getRosters resolved with
  standings,     \* getStandingsData: the array returned
  stPc,          \* getStandingsData: where the invocation is
  matchups,      \* the Matchup Deriver: its `matchups` argument
  dvRosters,     \* the Matchup Deriver: its `rosters` argument (season points by roster_id)
  dvWeek,        \* the Matchup Deriver: its `week` argument
  processed,     \* the Matchup Deriver: the ProcessedMatchup[] returned
  dvPc,          \* the Matchup Deriver: the function that ran ("idle": none yet)
  table,         \* GuillotineTable: teamsWithSafety, the rows rendered (<< >>: none)
  hpIndex,       \* HomePage: currentLeagueIndex
  hpInitialLoad, \* HomePage: initialLoad
  hpFetches,     \* HomePage: the runs of fetchMatchupData that have not finished
  hpStarted,     \* history: the number of runs of fetchMatchupData started
  hpLast,        \* history: the latest write of a run into the page's state
  pxPath,        \* proxy route: params.path, the segments of the request path
  pxPc,          \* proxy route: where the request is
  pxStatus,      \* proxy route: the status of the response (0: none yet)
  pxFetched      \* proxy route: the path of the upstream fetch (<< >>: none)

coVars == <<requestCache, evict, promises, queue, processing, sinceLast, loops,
            calls, started, enq, lastGap>>

wkVars == <<wkPc, wkCalc, wkWeek, wkResult, wkVia, wkLog, wkFirstData, wkLastFailed,
            wkLeague, wkSettled>>

seVars == <<wkPrev, upstream>>

stVars == <<rosters, standings, stPc>>

dvVars == <<matchups, dvRosters, dvWeek, processed, dvPc>>

uiVars == <<table, hpIndex, hpInitialLoad, hpFetches, hpStarted, hpLast,
           pxPath, pxPc, pxStatus, pxFetched>>

vars == <<coVars, wkVars, seVars, stVars, dvVars, uiVars>>

----------------------------------------------------------------------------
(* Program constants *)

minInterval == 50
maxRetries == 3
baseDelay == 1000
cacheTTL == 300000
NumLeagues == 6
MinWeek == 1
MaxWeek == 18
HoursPerDay == 24
DaysPerWeek == 7
Hundredths == 100

(* Bounds of the model *)

MaxCalls == 3
MaxClientCalls == 2
MaxEntries == 2
MaxSeasonWeek == 3
MaxRosters == 3
MaxDvEntries == 3
MaxLeagueSize == 12
MaxRotations == 3
MaxSegments == 3

----------------------------------------------------------------------------
(* src/config/leagues.ts and src/config/config.ts *)

allowedLeagueIds ==
  { "1269339474479824896", "1269338777323581440", "1269338223918714880",
    "1267607910209306624", "1267631483950989312", "1267631730034999296" }

\* A league id outside the allow-list, for the inputs.
OtherLeagueId == "1111111111111111111"

\* Endpoint paths, as their segments; the week is interpolated as given.
EpLeague(leagueId) == <<"league", leagueId>>
EpUsers(leagueId) == <<"league", leagueId, "users">>
EpRosters(leagueId) == <<"league", leagueId, "rosters">>
EpMatchups(leagueId, week) == <<"league", leagueId, "matchups", week>>
EpTransactions(leagueId, week) == <<"league", leagueId, "transactions", week>>
EpDrafts(leagueId) == <<"league", leagueId, "drafts">>

\* The endpoint each exported fetcher hands to fetchSleeperAPI.
ClientEndpoint(r) ==
  CASE r.fn = "getLeague" -> EpLeague(r.leagueId)
    [] r.fn = "getUsers" -> EpUsers(r.leagueId)
    [] r.fn = "getRosters" -> EpRosters(r.leagueId)
    [] r.fn = "getMatchups" -> EpMatchups(r.leagueId, r.week)
    [] r.fn = "getTransactions" -> EpTransactions(r.leagueId, r.week)
    [] r.fn = "getDrafts" -> EpDrafts(r.leagueId)

Req(fn, leagueId, week) == [fn |-> fn, leagueId |-> leagueId, week |-> week]

----------------------------------------------------------------------------
(* The mutable state of the module as one record, so that a handler's      *)
(* sequential code is a composition of operators on it.                    *)

Cur ==
  [ requestCache |-> requestCache, evict |-> evict, promises |-> promises,
    queue |-> queue, processing |-> processing, sinceLast |-> sinceLast,
    loops |-> loops, started |-> started, enq |-> enq, lastGap |-> lastGap ]

Commit(s) ==
  /\ requestCache' = s.requestCache
  /\ evict' = s.evict
  /\ promises' = s.promises
  /\ queue' = s.queue
  /\ processing' = s.processing
  /\ sinceLast' = s.sinceLast
  /\ loops' = s.loops
  /\ started' = s.started
  /\ enq' = s.enq
  /\ lastGap' = s.lastGap

NewPromise(key) ==
  [key |-> key, st |-> "pending", val |-> "", net |-> 0, resp |-> "none", naps |-> 0]

Loop(st, p, rc, left, on) == [st |-> st, p |-> p, rc |-> rc, left |-> left, on |-> on]

----------------------------------------------------------------------------
(* class RequestQueue *)

\* Variant of NeedsPacing: the pacing delay is never taken.
NeedsPacingNever(since) == FALSE

\* process(): `timeSinceLastRequest < this.minInterval`
NeedsPacing(since) == since < minInterval

\* process(): `this.queue.shift()`
ShiftQueue(q) == [req |-> Head(q), rest |-> Tail(q)]

\* process(): `if (this.processing || this.queue.length === 0) return`
ProcessReturns(busy, len) == busy \/ len = 0

\* process(): shift a request, stamp lastRequestTime and call it; the request
\* function (fetchSleeperAPI's closure) runs up to its `await fetch(url)`.
StartRequest(s) ==
  LET sh == ShiftQueue(s.queue)
      r == sh.req
  IN [s EXCEPT !.queue = sh.rest,
               !.sinceLast = 0,
               !.lastGap = s.sinceLast,
               !.started = Append(@, r.p),
               !.promises[r.p].net = @ + 1,
               !.loops = @ \cup {Loop("fetch", r.p, r.rc, 0, 0)}]

\* process(): one pass of `while (this.queue.length > 0)` up to its next await,
\* or the exit that clears `processing`.
LoopIter(s) ==
  IF Len(s.queue) = 0
    THEN [s EXCEPT !.processing = FALSE]
    ELSE IF NeedsPacing(s.sinceLast)
      THEN [s EXCEPT !.loops = @ \cup {Loop("sleep", 0, 0, minInterval - s.sinceLast, 0)}]
      ELSE StartRequest(s)

Process(s) ==
  IF ProcessReturns(s.processing, Len(s.queue))
    THEN s
    ELSE LoopIter([s EXCEPT !.processing = TRUE])

\* Variant of CacheHit: the cache is never looked up.
CacheHitNever(cache, key) == FALSE

\* add(): `cacheKey && requestCache.has(cacheKey)`
CacheHit(cache, key) == key \in DOMAIN cache

\* add(): `setTimeout(() => requestCache.delete(cacheKey), 300000)`
EvictTimer(key, p) == [key |-> key, p |-> p, left |-> cacheTTL]

\* add(requestFn, cacheKey): the promise handed back, and the state after it.
Add(s, key, rc) ==
  IF CacheHit(s.requestCache, key)
    THEN [s |-> s, p |-> s.requestCache[key]]
    ELSE LET p == Len(s.promises) + 1
             s1 == [s EXCEPT !.promises = Append(@, NewPromise(key)),
                             !.queue = Append(@, [p |-> p, rc |-> rc]),
                             !.enq = Append(@, p)]
             s2 == Process(s1)
             s3 == [s2 EXCEPT !.requestCache = (key :> p) @@ s2.requestCache,
                              !.evict = @ \cup {EvictTimer(key, p)}]
         IN [s |-> s3, p |-> p]

\* The wrapper add() queued: `resolve(result)` / `reject(error)` once the
\* request function of loop l has returned or thrown.
Settled(s, l, st, val) ==
  [s EXCEPT !.promises[l.p].st = st,
            !.promises[l.p].val = val,
            !.loops = @ \ {l}]

\* A request function that returned another promise settles as that promise
\* does; process() then goes on with its loop.
RECURSIVE Drain(_)
Drain(s) ==
  LET ready == {w \in s.loops : w.st = "await" /\ s.promises[w.on].st # "pending"}
  IN IF ready = {}
       THEN s
       ELSE LET w == CHOOSE x \in ready : TRUE
            IN Drain(LoopIter(Settled(s, w, s.promises[w.on].st, s.promises[w.on].val)))

Finish(s, l, st, val) == Drain(LoopIter(Settled(s, l, st, val)))

----------------------------------------------------------------------------
(* fetchSleeperAPI *)

Values == {"d1", "d2"}

\* What the upstream may answer to one fetch().
Answers ==
  {[kind |-> "json", data |-> d] : d \in Values}
    \cup {[kind |-> k, data |-> ""] :
            k \in {"http429", "http500", "html", "badjson", "neterr"}}

\* `retryCount < maxRetries`
CanRetry(rc) == rc < maxRetries

\* `baseDelay * Math.pow(2, retryCount)`
BackoffDelay(rc) == baseDelay * (2 ^ rc)

\* The rate-limit signals: status 429, an HTML body, a body JSON.parse rejects.
IsRateLimit(a) == a.kind \in {"http429", "html", "badjson"}

RespClass(a) ==
  IF IsRateLimit(a) THEN "rl"
  ELSE IF a.kind = "http500" THEN "http"
  ELSE IF a.kind = "neterr" THEN "net"
  ELSE "json"

\* Variant of Outcome: every status that is not ok takes the 429 branch.
OutcomeRetryHttp(a, rc) ==
  CASE a.kind = "neterr" -> [act |-> "rejected", val |-> "NetworkError"]
    [] a.kind \in {"http429", "http500", "html"} ->
         IF CanRetry(rc) THEN [act |-> "retry", val |-> ""]
         ELSE [act |-> "rejected", val |-> "RateLimited"]
    [] a.kind = "badjson" ->
         IF CanRetry(rc) THEN [act |-> "retry", val |-> ""]
         ELSE [act |-> "rejected", val |-> "SyntaxError"]
    [] a.kind = "json" -> [act |-> "resolved", val |-> a.data]

\* The request function from the answer on: what it does with retryCount rc.
Outcome(a, rc) ==
  CASE a.kind = "neterr" -> [act |-> "rejected", val |-> "NetworkError"]
    [] a.kind = "http500" -> [act |-> "rejected", val |-> "UpstreamError"]
    [] a.kind = "http429" ->
         IF CanRetry(rc) THEN [act |-> "retry", val |-> ""]
         ELSE [act |-> "rejected", val |-> "RateLimited"]
    [] a.kind = "html" ->
         IF CanRetry(rc) THEN [act |-> "retry", val |-> ""]
         ELSE [act |-> "rejected", val |-> "RateLimited"]
    [] a.kind = "badjson" ->
         IF CanRetry(rc) THEN [act |-> "retry", val |-> ""]
         ELSE [act |-> "rejected", val |-> "SyntaxError"]
    [] a.kind = "json" -> [act |-> "resolved", val |-> a.data]

----------------------------------------------------------------------------
(* Initial state and actions *)

\* `new Map()`, `new RequestQueue()`
CoInit ==
  /\ requestCache = << >>
  /\ evict = {}
  /\ promises = << >>
  /\ queue = << >>
  /\ processing = FALSE
  /\ sinceLast = minInterval
  /\ loops = {}
  /\ calls = << >>
  /\ started = << >>
  /\ enq = << >>
  /\ lastGap = minInterval

\* getLatestWeekWithData has not been invoked.
WkInit ==
  /\ wkPc = "idle"
  /\ wkCalc = 0
  /\ wkWeek = 0
  /\ wkResult = 0
  /\ wkVia = "none"
  /\ wkLog = << >>
  /\ wkFirstData = 0
  /\ wkLastFailed = 0
  /\ wkLeague = [kind |-> "none", type |-> ""]
  /\ wkSettled = 0
  /\ wkPrev = 0

\* The upstream is not looked at.
SeIdle == upstream = [now |-> 0, data |-> {}, type |-> "standard"]

\* getStandingsData has not been invoked.
StIdle ==
  /\ rosters = << >>
  /\ standings = << >>
  /\ stPc = "idle"

\* The Matchup Deriver has not been invoked.
DvIdle ==
  /\ matchups = [kind |-> "array", rows |-> << >>]
  /\ dvRosters = << >>
  /\ dvWeek = 0
  /\ processed = << >>
  /\ dvPc = "idle"

\* GuillotineTable has not been rendered, HomePage is not mounted and the
\* proxy route has no request.
UiIdle ==
  /\ table = << >>
  /\ hpIndex = 0
  /\ hpInitialLoad = TRUE
  /\ hpFetches = {}
  /\ hpStarted = 0
  /\ hpLast = [from |-> 0, shown |-> 0, what |-> "none"]
  /\ pxPath = << >>
  /\ pxPc = "idle"
  /\ pxStatus = 0
  /\ pxFetched = << >>

Init == CoInit /\ WkInit /\ SeIdle /\ StIdle /\ DvIdle /\ UiIdle

\* A caller invokes one of the exported fetchers.
Invoke(r, max) ==
  /\ Len(calls) < max
  /\ LET ep == ClientEndpoint(r)
         a == Add(Cur, ep, 0)
     IN /\ Commit(a.s)
        /\ calls' = Append(calls,
             [req |-> r, ep |-> ep, p |-> a.p,
              live |-> {t.p : t \in {x \in evict : x.key = ep /\ x.left > 0}},
              inflight |-> {p \in DOMAIN promises :
                              promises[p].key = ep /\ promises[p].st = "pending"},
              timed |-> {t.p : t \in {x \in evict : x.key = ep}},
              prior |-> {p \in DOMAIN promises : promises[p].key = ep}])
  /\ UNCHANGED <<wkVars, seVars, stVars, dvVars, uiVars>>

\* The upstream answers the fetch() a request function is waiting on.
Respond(l, a) ==
  /\ l \in loops
  /\ l.st = "fetch"
  /\ LET o == Outcome(a, l.rc)
         s0 == [Cur EXCEPT !.promises[l.p].resp = RespClass(a)]
     IN IF o.act = "retry"
          THEN Commit([s0 EXCEPT
                 !.promises[l.p].naps = @ + 1,
                 !.loops = (@ \ {l}) \cup {Loop("backoff", l.p, l.rc, BackoffDelay(l.rc), 0)}])
          ELSE Commit(Finish(s0, l, o.act, o.val))
  /\ UNCHANGED <<calls, wkVars, seVars, stVars, dvVars, uiVars>>

\* The backoff delay is over: `return fetchSleeperAPI(endpoint, retryCount + 1)`.
BackoffWake(l) ==
  /\ l \in loops
  /\ l.st = "backoff"
  /\ l.left = 0
  /\ LET a == Add(Cur, promises[l.p].key, l.rc + 1)
         s1 == [a.s EXCEPT !.loops = (@ \ {l}) \cup {Loop("await", l.p, l.rc, 0, a.p)}]
     IN Commit(Drain(s1))
  /\ UNCHANGED <<calls, wkVars, seVars, stVars, dvVars, uiVars>>

\* The pacing delay of process() is over.
PacingWake(l) ==
  /\ l \in loops
  /\ l.st = "sleep"
  /\ l.left = 0
  /\ LET s1 == [Cur EXCEPT !.loops = @ \ {l}]
     IN IF Len(queue) = 0 THEN Commit(s1) ELSE Commit(StartRequest(s1))
  /\ UNCHANGED <<calls, wkVars, seVars, stVars, dvVars, uiVars>>

\* An eviction timer fires: `requestCache.delete(cacheKey)`.
EvictFire(t) ==
  /\ t \in evict
  /\ t.left = 0
  /\ evict' = evict \ {t}
  /\ requestCache' = [k \in DOMAIN requestCache \ {t.key} |-> requestCache[k]]
  /\ UNCHANGED <<promises, queue, processing, sinceLast, loops, calls, started, enq, lastGap,
                 wkVars, seVars, stVars, dvVars, uiVars>>

\* The countdowns that are running.
TimerLefts ==
  {t.left : t \in evict} \cup {l.left : l \in {x \in loops : x.st \in {"sleep", "backoff"}}}

Deadlines ==
  TimerLefts \cup (IF sinceLast < minInterval THEN {minInterval - sinceLast} ELSE {})

MinOf(S) == CHOOSE x \in S : \A y \in S : x <= y

\* d milliseconds pass, up to the next deadline.
Advance(d) ==
  /\ Deadlines # {}
  /\ 0 \notin TimerLefts
  /\ d > 0
  /\ d <= MinOf(Deadlines)
  /\ evict' = {[t EXCEPT !.left = @ - d] : t \in evict}
  /\ loops' = {IF l.st \in {"sleep", "backoff"} THEN [l EXCEPT !.left = @ - d] ELSE l : l \in loops}
  /\ sinceLast' = IF sinceLast + d >= minInterval THEN minInterval ELSE sinceLast + d
  /\ UNCHANGED <<requestCache, promises, queue, processing, calls, started, enq, lastGap,
                 wkVars, seVars, stVars, dvVars, uiVars>>

\* The callers' requests of the coordinator specification.
SpecRequests ==
  { Req("getLeague", "1269339474479824896", 0),
    Req("getMatchups", "1269339474479824896", 1) }

\* The time steps tried: to the next deadline, and to the middle of a cache
\* entry's life when no deadline comes earlier.
Steps ==
  IF Deadlines = {}
    THEN {}
    ELSE {MinOf(Deadlines)} \cup {h \in {cacheTTL \div 2} : h < MinOf(Deadlines)}

Next ==
  \/ \E r \in SpecRequests : Invoke(r, MaxCalls)
  \/ \E l \in loops, a \in Answers : Respond(l, a)
  \/ \E l \in loops : BackoffWake(l)
  \/ \E l \in loops : PacingWake(l)
  \/ \E t \in evict : EvictFire(t)
  \/ \E d \in Steps : Advance(d)

Spec == Init /\ [][Next]_vars

----------------------------------------------------------------------------
(* The exported fetchers, called with any league id and any week *)

ClientLeagues == {"1269339474479824896", OtherLeagueId}

ClientWeeks == {0, 1, 18, 19}

ClientRequests ==
  {Req(fn, id, 0) : fn \in {"getLeague", "getUsers", "getRosters", "getDrafts"},
                    id \in ClientLeagues}
    \cup {Req(fn, id, w) : fn \in {"getMatchups", "getTransactions"},
                           id \in ClientLeagues, w \in ClientWeeks}

ClientNext == \E r \in ClientRequests : Invoke(r, MaxClientCalls)

ClientSpec == Init /\ [][ClientNext]_vars

\* The endpoints of the fetch() calls issued so far, in order.
Wire == [i \in DOMAIN started |-> promises[started[i]].key]

----------------------------------------------------------------------------
(* getLatestWeekWithData *)

\* Hours from the season start (2025-09-04) to `new Date()`.
NowOffsets == {-200, -1, 0, 167, 168, 336, 2855, 2856, 3024, 8760}

Max2(a, b) == IF a >= b THEN a ELSE b
Min2(a, b) == IF a <= b THEN a ELSE b

\* `Math.floor((now - seasonStart) / (1000 * 60 * 60 * 24))`
DaysSinceStart(h) == h \div HoursPerDay

\* `Math.max(1, Math.min(18, Math.floor(daysSinceStart / 7) + 1))`
CalculatedCurrentWeek(h) ==
  Max2(MinWeek, Min2(MaxWeek, (DaysSinceStart(h) \div DaysPerWeek) + 1))

\* One row of a matchups payload: points (or null) and the starters list (its
\* length, or null).
Row(pnull, points, snull, starters) ==
  [pnull |-> pnull, points |-> points, snull |-> snull, starters |-> starters]

Rows ==
  {Row(pt[1], pt[2], st[1], st[2]) :
     pt \in {<<TRUE, 0>>, <<FALSE, 0>>, <<FALSE, 12>>, <<FALSE, -3>>},
     st \in {<<TRUE, 0>>, <<FALSE, 0>>, <<FALSE, 2>>}}

\* How the promise of getMatchups(leagueId, week) settles.
MatchupOutcomes ==
  {[kind |-> k, rows |-> << >>] : k \in {"reject", "null", "object"}}
    \cup {[kind |-> "array", rows |-> r] :
            r \in UNION {[1..n -> Rows] : n \in 0..MaxEntries}}

\* `m.points && m.points > 0`
RowHasPoints(m) == ~m.pnull /\ m.points # 0 /\ m.points > 0

\* `m.starters && m.starters.length > 0`
RowHasStarters(m) == ~m.snull /\ m.starters > 0

\* Variant of CatchWeek: the error leaves the function.
CatchWeekRethrow == "throw"

\* The `catch (error)` of the loop body: `continue`.
CatchWeek == "next"

\* Variant of TryWeek: the starters check is missing.
TryWeekPointsOnly(o) ==
  IF o.kind = "reject" THEN "error"
  ELSE IF o.kind = "null" THEN "next"
  ELSE IF o.kind = "object" THEN "error"
  ELSE IF Len(o.rows) = 0 THEN "next"
  ELSE IF Len(SelectSeq(o.rows, RowHasPoints)) > 0 THEN "return"
  ELSE "next"

\* The body of the `try` for one week: "return" (return week), "next" (the
\* loop goes on) or "error" (it threw).
TryWeek(o) ==
  IF o.kind = "reject" THEN "error"
  ELSE IF o.kind = "null" THEN "next"
  ELSE IF o.kind = "object" THEN "error"
  ELSE IF Len(o.rows) = 0 THEN "next"
  ELSE IF Len(SelectSeq(o.rows, RowHasPoints)) > 0 THEN "return"
  ELSE IF Len(SelectSeq(o.rows, RowHasStarters)) > 0 THEN "return"
  ELSE "next"

ScanWeek(o) == IF TryWeek(o) = "error" THEN CatchWeek ELSE TryWeek(o)

\* Variant of NextWeek: the loop steps by two weeks.
NextWeekSkip(week, calc) == IF week + 2 <= calc THEN week + 2 ELSE 0

\* `for (let week = 1; week <= calculatedCurrentWeek; week++)`: the week to
\* fetch after `week`, or 0 when the loop is over.
NextWeek(week, calc) == IF week + 1 <= calc THEN week + 1 ELSE 0

\* How the promise of getLeague(leagueId) settles.
LeagueOutcomes ==
  {[kind |-> k, type |-> ""] : k \in {"reject", "null", "nometa"}}
    \cup {[kind |-> "league", type |-> t] :
            t \in {"", "standard", "survivor", "pick_em", "guillotine"}}

\* `league.metadata?.league_type || "standard"`
LeagueType(o) == IF o.kind = "nometa" \/ o.type = "" THEN "standard" ELSE o.type

\* Variant of Fallback: the special league types are not told apart.
FallbackNoSpecial(o, calc) ==
  IF o.kind \in {"reject", "null"} THEN [week |-> 1, via |-> "error"]
  ELSE [week |-> calc, via |-> "regular"]

\* The fallback after the loop: the value returned and the return taken.
Fallback(o, calc) ==
  IF o.kind \in {"reject", "null"} THEN [week |-> 1, via |-> "error"]
  ELSE IF LeagueType(o) \in {"survivor", "pick_em"} THEN [week |-> 1, via |-> "special"]
  ELSE [week |-> calc, via |-> "regular"]

\* A week has data: some row with positive points or a non-empty starters list.
WeekHasData(o) ==
  /\ o.kind = "array"
  /\ \E i \in DOMAIN o.rows :
       \/ (~o.rows[i].pnull /\ o.rows[i].points > 0)
       \/ (~o.rows[i].snull /\ o.rows[i].starters > 0)

WeekInvoke(h) ==
  /\ wkPc = "idle"
  /\ wkCalc' = CalculatedCurrentWeek(h)
  /\ IF 1 <= CalculatedCurrentWeek(h)
       THEN wkPc' = "scan" /\ wkWeek' = 1 /\ wkLog' = <<1>>
       ELSE wkPc' = "league" /\ wkWeek' = 1 /\ wkLog' = wkLog
  /\ UNCHANGED <<wkResult, wkVia, wkFirstData, wkLastFailed, wkLeague, wkSettled,
                 coVars, seVars, stVars, dvVars, uiVars>>

WeekAnswer(o) ==
  /\ wkPc = "scan"
  /\ wkSettled' = wkSettled + 1
  /\ wkFirstData' = IF wkFirstData = 0 /\ WeekHasData(o) THEN wkWeek ELSE wkFirstData
  /\ wkLastFailed' = IF o.kind = "reject" THEN wkWeek ELSE wkLastFailed
  /\ CASE ScanWeek(o) = "return" ->
            /\ wkPc' = "done" /\ wkResult' = wkWeek /\ wkVia' = "scan"
            /\ UNCHANGED <<wkWeek, wkLog>>
       [] ScanWeek(o) = "next" /\ NextWeek(wkWeek, wkCalc) # 0 ->
            /\ wkWeek' = NextWeek(wkWeek, wkCalc)
            /\ wkLog' = Append(wkLog, NextWeek(wkWeek, wkCalc))
            /\ UNCHANGED <<wkPc, wkResult, wkVia>>
       [] ScanWeek(o) = "next" /\ NextWeek(wkWeek, wkCalc) = 0 ->
            /\ wkPc' = "league"
            /\ UNCHANGED <<wkWeek, wkLog, wkResult, wkVia>>
       [] OTHER ->
            /\ wkPc' = "threw"
            /\ UNCHANGED <<wkWeek, wkLog, wkResult, wkVia>>
  /\ UNCHANGED <<wkCalc, wkLeague, coVars, seVars, stVars, dvVars, uiVars>>

LeagueAnswer(o) ==
  /\ wkPc = "league"
  /\ wkPc' = "done"
  /\ wkResult' = Fallback(o, wkCalc).week
  /\ wkVia' = Fallback(o, wkCalc).via
  /\ wkLeague' = o
  /\ UNCHANGED <<wkCalc, wkWeek, wkLog, wkFirstData, wkLastFailed, wkSettled, coVars,
                 seVars, stVars, dvVars, uiVars>>

WeekNext ==
  \/ \E h \in NowOffsets : WeekInvoke(h)
  \/ \E o \in MatchupOutcomes : WeekAnswer(o)
  \/ \E o \in LeagueOutcomes : LeagueAnswer(o)

WeekSpec == Init /\ [][WeekNext]_vars

----------------------------------------------------------------------------
(* getLatestWeekWithData invoked again and again while the season goes on *)

\* The clock values tried (hours from the season start): the first hour of
\* each week.
SeasonWeeks == 1..MaxSeasonWeek

SeasonNows == {(w - 1) * HoursPerDay * DaysPerWeek : w \in SeasonWeeks}

SeasonTypes == {"standard", "survivor"}

SeasonInit ==
  /\ CoInit /\ WkInit /\ StIdle /\ DvIdle /\ UiIdle
  /\ upstream \in [now : SeasonNows, data : SUBSET SeasonWeeks, type : SeasonTypes]

\* What getMatchups(leagueId, week) resolves with: an array that has data
\* exactly when the upstream has data for the week.
UpstreamMatchups(week) ==
  {o \in MatchupOutcomes :
     o.kind = "array" /\ (WeekHasData(o) <=> week \in upstream.data)}

\* What getLeague(leagueId) resolves with.
UpstreamLeague == [kind |-> "league", type |-> upstream.type]

\* The clock advances and the upstream publishes data for more weeks.
SeasonTick(h, d) ==
  /\ h >= upstream.now
  /\ upstream.data \subseteq d
  /\ <<h, d>> # <<upstream.now, upstream.data>>
  /\ upstream' = [upstream EXCEPT !.now = h, !.data = d]
  /\ UNCHANGED <<wkPrev, coVars, wkVars, stVars, dvVars, uiVars>>

\* The next invocation, once the one before has returned.
SeasonInvoke ==
  /\ wkPc \in {"idle", "done"}
  /\ wkPrev' = wkResult
  /\ wkCalc' = CalculatedCurrentWeek(upstream.now)
  /\ wkPc' = "scan"
  /\ wkWeek' = 1
  /\ wkLog' = <<1>>
  /\ wkFirstData' = 0
  /\ wkLastFailed' = 0
  /\ wkLeague' = [kind |-> "none", type |-> ""]
  /\ wkSettled' = 0
  /\ UNCHANGED <<wkResult, wkVia, upstream, coVars, stVars, dvVars, uiVars>>

SeasonNext ==
  \/ \E h \in SeasonNows, d \in SUBSET SeasonWeeks : SeasonTick(h, d)
  \/ SeasonInvoke
  \/ \E o \in UpstreamMatchups(wkWeek) : WeekAnswer(o)
  \/ LeagueAnswer(UpstreamLeague)

SeasonSpec == SeasonInit /\ [][SeasonNext]_vars

----------------------------------------------------------------------------
(* getStandingsData *)

\* A JSON field that may be null or missing: << >>, or <<v>> when it has the
\* value v.
None == << >>
Some(v) == <<v>>
Has(x) == x # None
Val(x) == x[1]

\* `x || 0` of a numeric field
OrZero(x) == IF Has(x) THEN Val(x) ELSE 0

\* The users getUsers resolves with.
StUsers == { [user_id |-> "u1", display_name |-> Some("Ann"), team_name |-> Some("Aces")],
             [user_id |-> "u2", display_name |-> Some("Bob"), team_name |-> None] }

\* The settings a roster may carry: wins, and the two halves of points-for and
\* of points-against.
StWins == {None, Some(1)}

StPoints ==
  { <<None, None>>, <<Some(100), None>>, <<None, Some(50)>>,
    <<Some(100), Some(50)>>, <<Some(101), Some(0)>> }

StAgainst == { <<Some(90), Some(25)>>, <<Some(90), None>>, <<None, Some(25)>> }

Settings(w, pf, pa) ==
  [wins |-> w, fpts |-> pf[1], fpts_decimal |-> pf[2],
   fpts_against |-> pa[1], fpts_against_decimal |-> pa[2]]

\* A roster without its roster_id: every wins and points-for of an owner
\* getUsers knows, the points-against halves, an owner without a team name
\* and a roster that has no owner.
StRosterKinds ==
  {[owner_id |-> Some("u1"), settings |-> Settings(w, pf, <<None, None>>)] :
     w \in StWins, pf \in StPoints}
  \cup {[owner_id |-> Some("u1"), settings |-> Settings(Some(1), <<Some(100), Some(50)>>, pa)] :
          pa \in StAgainst}
  \cup {[owner_id |-> Some("u2"), settings |-> Settings(Some(1), <<Some(100), Some(50)>>, <<None, None>>)],
        [owner_id |-> None, settings |-> Settings(None, <<None, None>>, <<None, None>>)]}

\* An array getRosters may resolve with; a roster's roster_id is its position
\* in the array.
WithRosterIds(k) ==
  [i \in DOMAIN k |-> [roster_id |-> i, owner_id |-> k[i].owner_id,
                       settings |-> k[i].settings]]

StandingsInit ==
  /\ CoInit /\ WkInit /\ SeIdle /\ DvIdle /\ UiIdle
  /\ \E n \in 0..MaxRosters :
       \E k \in [1..n -> StRosterKinds] : rosters = WithRosterIds(k)
  /\ standings = << >>
  /\ stPc = "idle"

\* Variant of PointsFor: a missing half counts as zero, the other half counts.
PointsForEitherHalf(st) == OrZero(st.fpts) * Hundredths + OrZero(st.fpts_decimal)

\* `fpts != null && fpts_decimal != null ? fpts + fpts_decimal / 100 : 0`, in
\* hundredths of a point.
PointsFor(st) ==
  IF Has(st.fpts) /\ Has(st.fpts_decimal)
    THEN Val(st.fpts) * Hundredths + Val(st.fpts_decimal)
    ELSE 0

\* The same for fpts_against and fpts_against_decimal.
PointsAgainst(st) ==
  IF Has(st.fpts_against) /\ Has(st.fpts_against_decimal)
    THEN Val(st.fpts_against) * Hundredths + Val(st.fpts_against_decimal)
    ELSE 0

\* `users.find((u) => u.user_id === roster.owner_id)`: the users found (none
\* or one).
FindUser(users, owner_id) == {u \in users : Has(owner_id) /\ u.user_id = Val(owner_id)}

\* `user?.metadata?.team_name || user?.display_name || "Unknown Team"`
TeamName(found) ==
  IF found = {} THEN "Unknown Team"
  ELSE LET u == CHOOSE x \in found : TRUE
       IN IF Has(u.team_name) THEN Val(u.team_name)
          ELSE IF Has(u.display_name) THEN Val(u.display_name)
          ELSE "Unknown Team"

\* `user?.display_name || "Unknown Owner"`
OwnerName(found) ==
  IF found = {} THEN "Unknown Owner"
  ELSE LET u == CHOOSE x \in found : TRUE
       IN IF Has(u.display_name) THEN Val(u.display_name) ELSE "Unknown Owner"

\* The callback of `rosters.map`.
StandingsRow(users, roster) ==
  [rosterId |-> roster.roster_id,
   teamName |-> TeamName(FindUser(users, roster.owner_id)),
   ownerName |-> OwnerName(FindUser(users, roster.owner_id)),
   wins |-> OrZero(roster.settings.wins),
   pointsFor |-> PointsFor(roster.settings),
   pointsAgainst |-> PointsAgainst(roster.settings)]

\* Variant of CompareStandings: points-for does not break a tie on wins.
CompareStandingsWinsOnly(a, b) == b.wins - a.wins

\* The comparator of `.sort`: negative when a goes first.
CompareStandings(a, b) ==
  IF b.wins # a.wins THEN b.wins - a.wins ELSE b.pointsFor - a.pointsFor

\* Array.prototype.sort is stable: an element goes after every element it
\* does not have to precede.
RECURSIVE InsertStanding(_, _)
InsertStanding(sorted, e) ==
  IF sorted = << >> THEN <<e>>
  ELSE IF CompareStandings(e, Head(sorted)) < 0 THEN <<e>> \o sorted
  ELSE <<Head(sorted)>> \o InsertStanding(Tail(sorted), e)

RECURSIVE SortStandings(_)
SortStandings(rows) ==
  IF rows = << >> THEN << >>
  ELSE InsertStanding(SortStandings(SubSeq(rows, 1, Len(rows) - 1)), rows[Len(rows)])

\* getStandingsData once users and rosters have resolved.
GetStandingsData(users, rs) ==
  SortStandings([i \in DOMAIN rs |-> StandingsRow(users, rs[i])])

Standings ==
  /\ stPc = "idle"
  /\ standings' = GetStandingsData(StUsers, rosters)
  /\ stPc' = "done"
  /\ UNCHANGED <<rosters, coVars, wkVars, seVars, dvVars, uiVars>>

\* getUsers or getRosters rejects: Promise.all rejects and the function throws.
StandingsReject ==
  /\ stPc = "idle"
  /\ stPc' = "threw"
  /\ UNCHANGED <<rosters, standings, coVars, wkVars, seVars, dvVars, uiVars>>

StandingsNext == Standings \/ StandingsReject

StandingsSpec == StandingsInit /\ [][StandingsNext]_vars

----------------------------------------------------------------------------
(* The Matchup Deriver of src/app/page.tsx: processMatchupsForDisplay and    *)
(* processGuillotineStandings.  Points are in hundredths of a point, a       *)
(* projection is in whole points (it is a roster's fpts) and a probability   *)
(* is in ten-thousandths, so that every product of the code is an integer.   *)
(* The display strings of a side (names, handle, avatar, seed) are left out. *)

\* `points` of an entry: null, 0, 3.00, 20.00, 23.00, 25.00, 40.00, -5.00
DvPoints ==
  { None, Some(0), Some(300), Some(2000), Some(2300), Some(2500), Some(4000),
    Some(0 - 500) }

\* `starters` of an entry, as its length: null, [], two players
DvStarters == { None, Some(0), Some(2) }

\* fpts and fpts_decimal of the entry's roster
DvSeason == { <<None, None>>, <<Some(100), None>>, <<Some(120), Some(50)>>, <<Some(0), Some(50)>> }

DvRoster(id, season) == [roster_id |-> id, fpts |-> season[1], fpts_decimal |-> season[2]]

Entry(roster_id, matchup_id, points, starters) ==
  [roster_id |-> roster_id, matchup_id |-> matchup_id, points |-> points,
   starters |-> starters]

\* The `matchups` argument: an array of entries, or a value that is no array.
ArrayOf(rows) == [kind |-> "array", rows |-> rows]

NonArrays == {[kind |-> k, rows |-> << >>] : k \in {"null", "undefined", "object"}}

\* Array.isArray(matchups)
IsArray(m) == m.kind = "array"

\* The points of roster i in a league where every roster has scored and no
\* two scores are equal: 40.00 and more, not in the order of the roster ids.
LeaguePoints(i) == 4000 + ((i * 7) % 13) * 1000

\* The orders in which the rosters 1..n can come in the array.
Orders(n) == {f \in [1..n -> 1..n] : \A i, j \in 1..n : f[i] = f[j] => i = j}

\* The inputs: one pair of entries with every points, starters and season
\* average, in week 1 and in week 3; the arrays of up to MaxDvEntries entries
\* spread over two matchup ids, the rosters in every order; the leagues of 1 to MaxLeagueSize scored
\* rosters; the values that are no array.
DeriverInit ==
  /\ CoInit /\ WkInit /\ SeIdle /\ StIdle /\ UiIdle
  /\ processed = << >>
  /\ dvPc = "idle"
  /\ \/ \E p1, p2 \in DvPoints, s1, s2 \in DvStarters, a1, a2 \in DvSeason, w \in {1, 3} :
          /\ matchups = ArrayOf(<<Entry(1, 1, p1, s1), Entry(2, 1, p2, s2)>>)
          /\ dvRosters = <<DvRoster(1, a1), DvRoster(2, a2)>>
          /\ dvWeek = w
     \/ \E n \in 0..MaxDvEntries :
          \E ids \in [1..n -> {1, 2}], pts \in [1..n -> {None, Some(2000), Some(4000)}],
             ord \in Orders(n) :
            /\ matchups = ArrayOf([i \in 1..n |-> Entry(ord[i], ids[i], pts[i], Some(2))])
            /\ dvRosters = [i \in 1..n |-> DvRoster(i, <<Some(100), None>>)]
            /\ dvWeek = 3
     \/ \E n \in 1..MaxLeagueSize :
          /\ matchups = ArrayOf([i \in 1..n |-> Entry(i, i, Some(LeaguePoints(i)), Some(2))])
          /\ dvRosters = [i \in 1..n |-> DvRoster(i, <<Some(100), None>>)]
          /\ dvWeek = 3
     \/ /\ matchups \in NonArrays
        /\ dvRosters = << >>
        /\ dvWeek = 1

\* `rosters.find((r) => r.roster_id === id)`: the rosters found (none or one).
FindRoster(rs, id) == {rs[i] : i \in {j \in DOMAIN rs : rs[j].roster_id = id}}

\* calculateProjection: `roster?.settings?.fpts || roster?.settings?.fpts_decimal || 0`
\* from week 3 on, 0 before.
CalculateProjection(found, currentWeek) ==
  IF currentWeek <= 1 THEN 0
  ELSE IF Max2(0, currentWeek - 1) < 2 THEN 0
  ELSE IF found = {} THEN 0
  ELSE LET r == CHOOSE x \in found : TRUE
           seasonAvg == IF OrZero(r.fpts) # 0 THEN OrZero(r.fpts) ELSE OrZero(r.fpts_decimal)
       IN IF seasonAvg > 0 THEN seasonAvg ELSE 0

\* `matchup.starters && matchup.starters.length > 0`
HasStarters(e) == Has(e.starters) /\ Val(e.starters) > 0

----------------------------------------------------------------------------
(* processMatchupsForDisplay *)

\* `rawPoints = Number(team.points ?? 0); points = rawPoints === 0 ? null : rawPoints`
DisplayPoints(e) == IF OrZero(e.points) = 0 THEN None ELSE Some(OrZero(e.points))

\* The callback of `teams.map`: one side, before its winProbability is set.
DisplaySide(e, rs, week) ==
  [rosterId |-> e.roster_id,
   points |-> DisplayPoints(e),
   projection |-> CalculateProjection(FindRoster(rs, e.roster_id), week),
   winProbability |-> None,
   isPreGame |-> Some(DisplayPoints(e) = None)]

\* `probabilityShift` for an advantage of d hundredths of a point:
\* advantage * 0.08, 0.4 + (advantage - 5) * 0.03, 0.7 + min((advantage - 15) * 0.01, 0.2)
ProbabilityShift(d) ==
  IF d < 500 THEN d * 8
  ELSE IF d < 1500 THEN 4000 + (d - 500) * 3
  ELSE 7000 + Min2(d - 1500, 2000)

Abs(x) == IF x < 0 THEN 0 - x ELSE x

\* winProbA before the clamp, from the two sides' points and projections.
WinProbA(p1, p2, proj1, proj2) ==
  IF p1 = None /\ p2 = None THEN None
  ELSE IF OrZero(p1) + OrZero(p2) > 0 /\ OrZero(p1) + OrZero(p2) < 1000 THEN Some(5000)
  ELSE IF OrZero(p1) <= 0 /\ OrZero(p2) <= 0 THEN None
  ELSE IF Has(p1) /\ Has(p2)
    THEN LET pointDiff == Val(p1) - Val(p2)
         IN IF Abs(pointDiff) < 10 THEN Some(5000)
            ELSE IF pointDiff > 0 THEN Some(5000 + ProbabilityShift(Abs(pointDiff)))
            ELSE Some(5000 - ProbabilityShift(Abs(pointDiff)))
  ELSE IF proj1 > 0 /\ proj2 > 0 THEN Some(5000 + (proj1 - proj2) * 25)
  ELSE None

\* `if (winProbA !== null) winProbA = Math.max(0.1, Math.min(0.9, winProbA))`
Clamp(p) == IF Has(p) THEN Some(Max2(1000, Min2(9000, Val(p)))) ELSE None

\* Variant of Complement: the second side is given the first side's value.
ComplementSame(p) == p

\* `winProbA !== null ? 1 - winProbA : null`
Complement(p) == IF Has(p) THEN Some(10000 - Val(p)) ELSE None

\* The body run for a group of two entries.
DisplayPair(e1, e2, rs, week) ==
  LET t1 == DisplaySide(e1, rs, week)
      t2 == DisplaySide(e2, rs, week)
      winProbA == Clamp(WinProbA(t1.points, t2.points, t1.projection, t2.projection))
  IN [matchupId |-> e1.matchup_id,
      teams |-> << [t1 EXCEPT !.winProbability = winProbA],
                   [t2 EXCEPT !.winProbability = Complement(winProbA)] >>]

\* `matchupGroups`: the positions whose entry is the first with its matchup_id,
\* in order (a Map keeps insertion order), and the entries of one group.
GroupHeads(rows) ==
  LET First(i) == \A j \in 1..(i - 1) : rows[j].matchup_id # rows[i].matchup_id
  IN SelectSeq([i \in DOMAIN rows |-> i], First)

GroupOf(rows, id) ==
  LET Same(e) == e.matchup_id = id
  IN SelectSeq(rows, Same)

\* Variant of PairedGroup: groups of two and more are kept.
PairedGroupAtLeast(teams) == Len(teams) >= 2

\* `if (teams.length === 2)`
PairedGroup(teams) == Len(teams) = 2

\* processMatchupsForDisplay for an array: one ProcessedMatchup per group of two.
DisplayGroups(rows, rs, week) ==
  LET heads == GroupHeads(rows)
      Paired(i) == PairedGroup(GroupOf(rows, rows[i].matchup_id))
      kept == SelectSeq(heads, Paired)
  IN [k \in DOMAIN kept |->
        LET g == GroupOf(rows, rows[kept[k]].matchup_id)
        IN DisplayPair(g[1], g[2], rs, week)]

\* Variant of GuardArray: the guard is missing.
GuardArrayMissing(m) == FALSE

\* `if (!Array.isArray(matchups)) return []`
GuardArray(m) == ~IsArray(m)

\* processMatchupsForDisplay: whether it threw (forEach of a value that is no
\* array) and the array returned.
ProcessMatchupsForDisplay(m, rs, week) ==
  IF GuardArray(m) THEN [threw |-> FALSE, out |-> << >>]
  ELSE IF ~IsArray(m) THEN [threw |-> TRUE, out |-> << >>]
  ELSE [threw |-> FALSE, out |-> DisplayGroups(m.rows, rs, week)]

----------------------------------------------------------------------------
(* processGuillotineStandings *)

\* `points`: the entry's points when they are positive or the entry has
\* starters, null otherwise.
GuillotinePoints(e) ==
  IF Has(e.points)
    THEN IF Val(e.points) > 0 \/ HasStarters(e) THEN e.points ELSE None
    ELSE None

\* The callback of `matchups.map`: one team of the standings.
GuillotineTeam(e, rs, week) ==
  [rosterId |-> e.roster_id,
   points |-> GuillotinePoints(e),
   projection |-> CalculateProjection(FindRoster(rs, e.roster_id), week),
   winProbability |-> Some(5000),
   isPreGame |-> Some(GuillotinePoints(e) = None)]

\* `a.points !== null ? a.points : (a.projection > 0 ? a.projection : -1)`,
\* in hundredths of a point.
GuillotineScore(t) ==
  IF Has(t.points) THEN Val(t.points)
  ELSE IF t.projection > 0 THEN t.projection * Hundredths
  ELSE 0 - Hundredths

\* Variant of CompareGuillotine: equal scores are not told apart.
CompareGuillotineScoreOnly(a, b) == GuillotineScore(b) - GuillotineScore(a)

\* The comparator of `.sort`: negative when a goes first.
CompareGuillotine(a, b) ==
  IF GuillotineScore(a) = GuillotineScore(b)
    THEN a.rosterId - b.rosterId
    ELSE GuillotineScore(b) - GuillotineScore(a)

RECURSIVE InsertTeam(_, _)
InsertTeam(sorted, t) ==
  IF sorted = << >> THEN <<t>>
  ELSE IF CompareGuillotine(t, Head(sorted)) < 0 THEN <<t>> \o sorted
  ELSE <<Head(sorted)>> \o InsertTeam(Tail(sorted), t)

RECURSIVE SortTeams(_)
SortTeams(ts) ==
  IF ts = << >> THEN << >>
  ELSE InsertTeam(SortTeams(SubSeq(ts, 1, Len(ts) - 1)), ts[Len(ts)])

\* The second team of a row: the placeholder of rank `index + 1`.
RankPlaceholder(index) ==
  [rosterId |-> 999 + index, rank |-> index + 1, points |-> Some(0), projection |-> 0,
   winProbability |-> Some(0), isPreGame |-> None]

\* `teamStandings.map((team, index) => ...)`
GuillotineRows(teamStandings) ==
  [i \in DOMAIN teamStandings |->
     [matchupId |-> teamStandings[i].rosterId,
      teams |-> <<teamStandings[i], RankPlaceholder(i - 1)>>]]

\* `if (!Array.isArray(matchups)) return []`
GuillotineGuardArray(m) == ~IsArray(m)

\* processGuillotineStandings: whether it threw (map of a value that is no
\* array) and the array returned.
ProcessGuillotineStandings(m, rs, week) ==
  IF GuillotineGuardArray(m) THEN [threw |-> FALSE, out |-> << >>]
  ELSE IF ~IsArray(m) THEN [threw |-> TRUE, out |-> << >>]
  ELSE [threw |-> FALSE,
        out |-> GuillotineRows(SortTeams(
                  [i \in DOMAIN m.rows |-> GuillotineTeam(m.rows[i], rs, week)]))]

----------------------------------------------------------------------------
(* The Matchup Deriver applied to the inputs *)

Derive(fn, r) ==
  /\ dvPc = "idle"
  /\ processed' = r.out
  /\ dvPc' = IF r.threw THEN "threw" ELSE fn
  /\ UNCHANGED <<matchups, dvRosters, dvWeek, coVars, wkVars, seVars, stVars, uiVars>>

DeriveDisplay == Derive("display", ProcessMatchupsForDisplay(matchups, dvRosters, dvWeek))

DeriveGuillotine == Derive("guillotine", ProcessGuillotineStandings(matchups, dvRosters, dvWeek))

----------------------------------------------------------------------------
(* GuillotineTable, rendered from the page's matchups state *)

\* The `matchups` prop: `points: m.teams[0].points || m.teams[0].projection`,
\* in hundredths of a point.
TableInput(ms) ==
  [i \in DOMAIN ms |->
     [roster_id |-> ms[i].teams[1].rosterId,
      points |-> IF OrZero(ms[i].teams[1].points) # 0
                   THEN ms[i].teams[1].points
                   ELSE Some(ms[i].teams[1].projection * Hundredths)]]

\* The comparator of `.sort`: null points last, highest points first.
CompareTable(a, b) ==
  IF a.points = None /\ b.points = None THEN a.rosterId - b.rosterId
  ELSE IF a.points = None THEN 1
  ELSE IF b.points = None THEN 0 - 1
  ELSE Val(b.points) - Val(a.points)

RECURSIVE InsertTableTeam(_, _)
InsertTableTeam(sorted, t) ==
  IF sorted = << >> THEN <<t>>
  ELSE IF CompareTable(t, Head(sorted)) < 0 THEN <<t>> \o sorted
  ELSE <<Head(sorted)>> \o InsertTableTeam(Tail(sorted), t)

RECURSIVE SortTable(_)
SortTable(ts) ==
  IF ts = << >> THEN << >>
  ELSE InsertTableTeam(SortTable(SubSeq(ts, 1, Len(ts) - 1)), ts[Len(ts)])

\* `teamScores` (rosterId and points of every matchup, sorted) and
\* `teamsWithSafety`: rank and zone of every team (no row when there is no
\* matchup).
GuillotineTable(ms) ==
  LET teamScores == SortTable([i \in DOMAIN ms |->
                                 [rosterId |-> ms[i].roster_id, points |-> ms[i].points]])
      \* `zone` of a rank: 1-3, 4-6, 7-9, 10 and more.
      ZoneOfRank(rank) ==
        IF rank <= 3 THEN "super-safety"
        ELSE IF rank <= 6 THEN "safety"
        ELSE IF rank <= 9 THEN "danger"
        ELSE "chopped"
  IN [i \in DOMAIN teamScores |->
        [rosterId |-> teamScores[i].rosterId,
         points |-> teamScores[i].points,
         rank |-> i,
         zone |-> IF teamScores[i].points = None THEN "safety" ELSE ZoneOfRank(i)]]

\* The page renders the table of the guillotine rows it holds.
RenderGuillotineTable ==
  /\ dvPc = "guillotine"
  /\ Len(processed) > 0
  /\ table = << >>
  /\ table' = GuillotineTable(TableInput(processed))
  /\ UNCHANGED <<coVars, wkVars, seVars, stVars, dvVars, hpIndex, hpInitialLoad, hpFetches,
                 hpStarted, hpLast, pxPath, pxPc, pxStatus, pxFetched>>

DeriverNext == DeriveDisplay \/ DeriveGuillotine \/ RenderGuillotineTable

DeriverSpec == DeriverInit /\ [][DeriverNext]_vars

\* The entry a side was built from.
EntryOf(side) ==
  LET Same(e) == e.roster_id = side.rosterId
  IN SelectSeq(matchups.rows, Same)[1]

\* The sides built from the entries: both teams of a head-to-head matchup, the
\* first team of a guillotine row.
Sides ==
  IF dvPc = "display"
    THEN {processed[i].teams[k] : i \in DOMAIN processed, k \in {1, 2}}
  ELSE IF dvPc = "guillotine"
    THEN {processed[i].teams[1] : i \in DOMAIN processed}
  ELSE {}

----------------------------------------------------------------------------
(* HomePage: the league rotation and the fetchMatchupData effect *)

\* The effect with dependencies [currentLeague, initialLoad] runs: a new
\* fetchMatchupData starts for the league shown, up to its first await. A run
\* is the league (index into `leagues`) captured by its closure and the await
\* it is at.
RunEffect(league) ==
  /\ hpStarted' = hpStarted + 1
  /\ hpFetches' = hpFetches \cup {[id |-> hpStarted + 1, league |-> league, stage |-> "week"]}

\* The page mounts: the effects run for the first time.
HomeMount ==
  /\ hpStarted = 0
  /\ RunEffect(hpIndex)
  /\ UNCHANGED <<hpIndex, hpInitialLoad, hpLast, table,
                 pxPath, pxPc, pxStatus, pxFetched,
                 coVars, wkVars, seVars, stVars, dvVars>>

\* The rotation interval fires and its 300 ms timer runs:
\* `setCurrentLeagueIndex((prev) => (prev + 1) % leagues.length)`; the effect
\* runs again for the new league, the runs in flight are left alone.
Rotate ==
  /\ hpStarted > 0
  /\ hpIndex < MaxRotations
  /\ hpIndex' = (hpIndex + 1) % NumLeagues
  /\ RunEffect((hpIndex + 1) % NumLeagues)
  /\ UNCHANGED <<hpInitialLoad, hpLast, table,
                 pxPath, pxPc, pxStatus, pxFetched,
                 coVars, wkVars, seVars, stVars, dvVars>>

\* `await getLatestWeekWithData(...)` returns: `setCurrentWeek(latestWeek)`.
FetchWeekDone(f) ==
  /\ f \in hpFetches
  /\ f.stage = "week"
  /\ hpLast' = [from |-> f.league, shown |-> hpIndex, what |-> "week"]
  /\ hpFetches' = (hpFetches \ {f}) \cup {[id |-> f.id, league |-> f.league, stage |-> "data"]}
  /\ UNCHANGED <<hpIndex, hpInitialLoad, hpStarted, table,
                 pxPath, pxPc, pxStatus, pxFetched,
                 coVars, wkVars, seVars, stVars, dvVars>>

\* `await Promise.all([...])` returns or throws: `setMatchups(processed)` or,
\* in the catch, `setMatchups([])`; then the `finally` starts its timer.
FetchDataDone(f, ok) ==
  /\ f \in hpFetches
  /\ f.stage = "data"
  /\ hpLast' = [from |-> f.league, shown |-> hpIndex,
                what |-> IF ok THEN "matchups" ELSE "empty"]
  /\ hpFetches' = (hpFetches \ {f}) \cup {[id |-> f.id, league |-> f.league, stage |-> "finally"]}
  /\ UNCHANGED <<hpIndex, hpInitialLoad, hpStarted, table,
                 pxPath, pxPc, pxStatus, pxFetched,
                 coVars, wkVars, seVars, stVars, dvVars>>

\* The timer of the `finally` fires: `setInitialLoad(false)`; when that
\* changes initialLoad the effect runs again for the league shown.
FetchSettle(f) ==
  /\ f \in hpFetches
  /\ f.stage = "finally"
  /\ hpInitialLoad' = FALSE
  /\ IF hpInitialLoad
       THEN /\ hpStarted' = hpStarted + 1
            /\ hpFetches' = (hpFetches \ {f}) \cup {[id |-> hpStarted + 1, league |-> hpIndex, stage |-> "week"]}
       ELSE /\ hpStarted' = hpStarted
            /\ hpFetches' = hpFetches \ {f}
  /\ UNCHANGED <<hpIndex, hpLast, table,
                 pxPath, pxPc, pxStatus, pxFetched,
                 coVars, wkVars, seVars, stVars, dvVars>>

\* The 10 s timer of the effect's last run fires while initialLoad is true:
\* `setInitialLoad(false)`, and the effect runs again.
LoadingTimeout ==
  /\ hpStarted > 0
  /\ hpInitialLoad
  /\ hpInitialLoad' = FALSE
  /\ RunEffect(hpIndex)
  /\ UNCHANGED <<hpIndex, hpLast, table,
                 pxPath, pxPc, pxStatus, pxFetched,
                 coVars, wkVars, seVars, stVars, dvVars>>

HomeNext ==
  \/ HomeMount
  \/ Rotate
  \/ \E f \in hpFetches : FetchWeekDone(f)
  \/ \E f \in hpFetches, ok \in BOOLEAN : FetchDataDone(f, ok)
  \/ \E f \in hpFetches : FetchSettle(f)
  \/ LoadingTimeout

HomeSpec == Init /\ [][HomeNext]_vars

----------------------------------------------------------------------------
(* The proxy: middleware and GET of /api/sleeper/[...path] *)

\* A string is the sequence of its pieces; "/" is a piece of its own and no
\* other piece contains a slash.

\* The segments a request can have after /api/sleeper/: non-empty and
\* without a slash.
SegmentWords ==
  { <<"league">>, <<"league", "s">>, <<"draft">>, <<"draft", "s">>, <<"user">>,
    <<"users">>, <<"1269339474479824896">>, <<"1267631730034999296">>,
    <<OtherLeagueId>>, <<"1269339474479824896", "x">> }

\* `array.join("/")`
RECURSIVE Join(_)
Join(segs) ==
  IF segs = << >> THEN << >>
  ELSE IF Len(segs) = 1 THEN segs[1]
  ELSE segs[1] \o <<"/">> \o Join(Tail(segs))

\* `"/" + params.path.join("/")`
PathOf(segs) == <<"/">> \o Join(segs)

\* `str.startsWith(prefix)`
StartsWith(str, prefix) ==
  /\ Len(str) >= Len(prefix)
  /\ SubSeq(str, 1, Len(prefix)) = prefix

\* The longest prefix of a string that has no slash: `[^/]+` when not empty.
RECURSIVE NoSlashPrefix(_)
NoSlashPrefix(str) ==
  IF str = << >> \/ Head(str) = "/" THEN << >>
  ELSE <<Head(str)>> \o NoSlashPrefix(Tail(str))

\* `path.match(/^\/league\/([^/]+)/)`: the captured group, or none.
LeagueMatch(path) ==
  IF StartsWith(path, <<"/", "league", "/">>)
       /\ NoSlashPrefix(SubSeq(path, 4, Len(path))) # << >>
    THEN Some(NoSlashPrefix(SubSeq(path, 4, Len(path))))
    ELSE None

\* Variant of AllowedLeague: every league id is let through.
AllowedLeagueAny(leagueId) == TRUE

\* `allowedLeagueIds.has(leagueId)`
AllowedLeague(leagueId) == Len(leagueId) = 1 /\ leagueId[1] \in allowedLeagueIds

\* GET up to its `await fetch(url)`: the status it returns before any fetch,
\* or 0 when it goes on to fetch.
GateStatus(path) ==
  IF ~StartsWith(path, <<"/", "league", "/">>) /\ ~StartsWith(path, <<"/", "draft", "/">>)
    THEN 400
  ELSE IF Has(LeagueMatch(path)) /\ ~AllowedLeague(Val(LeagueMatch(path)))
    THEN 403
  ELSE 0

\* A request for /api/sleeper/<segments> arrives.
ProxyInit ==
  /\ CoInit /\ WkInit /\ SeIdle /\ StIdle /\ DvIdle
  /\ table = << >>
  /\ hpIndex = 0
  /\ hpInitialLoad = TRUE
  /\ hpFetches = {}
  /\ hpStarted = 0
  /\ hpLast = [from |-> 0, shown |-> 0, what |-> "none"]
  /\ \E n \in 1..MaxSegments : pxPath \in [1..n -> SegmentWords]
  /\ pxPc = "idle"
  /\ pxStatus = 0
  /\ pxFetched = << >>

\* The middleware runs before the route handler: `pathSegments.length < 4 ||
\* (!pathSegments[3].startsWith("league") && !pathSegments[3].startsWith("draft"))`
\* for /api/sleeper/<segments>.
Middleware ==
  /\ pxPc = "idle"
  /\ IF \/ Len(pxPath) < 1
        \/ ~StartsWith(pxPath[1], <<"league">>) /\ ~StartsWith(pxPath[1], <<"draft">>)
       THEN pxPc' = "done" /\ pxStatus' = 400
       ELSE pxPc' = "route" /\ pxStatus' = pxStatus
  /\ UNCHANGED <<pxPath, pxFetched, table, hpIndex, hpInitialLoad, hpFetches, hpStarted,
                 hpLast, coVars, wkVars, seVars, stVars, dvVars>>

\* GET runs up to `await fetch(url)` or to an early return.
ProxyGet ==
  /\ pxPc = "route"
  /\ IF GateStatus(PathOf(pxPath)) # 0
       THEN pxPc' = "done" /\ pxStatus' = GateStatus(PathOf(pxPath)) /\ pxFetched' = pxFetched
       ELSE pxPc' = "fetch" /\ pxStatus' = pxStatus /\ pxFetched' = PathOf(pxPath)
  /\ UNCHANGED <<pxPath, table, hpIndex, hpInitialLoad, hpFetches, hpStarted, hpLast,
                 coVars, wkVars, seVars, stVars, dvVars>>

\* The upstream answers with status a, or the fetch throws (a = 0): the body
\* is passed on, `!res.ok` gives the upstream status, a throw gives 500.
ProxyAnswer(a) ==
  /\ pxPc = "fetch"
  /\ pxPc' = "done"
  /\ pxStatus' = IF a = 0 THEN 500 ELSE a
  /\ UNCHANGED <<pxPath, pxFetched, table, hpIndex, hpInitialLoad, hpFetches, hpStarted,
                 hpLast, coVars, wkVars, seVars, stVars, dvVars>>

ProxyNext ==
  \/ Middleware
  \/ ProxyGet
  \/ \E a \in {200, 404, 429, 500, 0} : ProxyAnswer(a)

ProxySpec == ProxyInit /\ [][ProxyNext]_vars

----------------------------------------------------------------------------
(* Properties *)

\* Nothing is left to happen in the coordinator: no fetch() is unanswered and
\* no backoff or pacing delay is running.
Quiescent == \A l \in loops : l.st \notin {"fetch", "backoff", "sleep"}

\* C1: of two calls of fetchSleeperAPI for the same endpoint, the second made
\* while the first's promise is still in flight or less than cacheTTL after it
\* was cached, both are handed the same promise (hence the same settled value)
\* and its request reaches the network at most once.
C1_Dedup ==
  \A i, j \in DOMAIN calls :
    (/\ i < j
     /\ calls[i].ep = calls[j].ep
     /\ (calls[i].p \in calls[j].inflight \/ calls[i].p \in calls[j].live))
    => /\ calls[j].p = calls[i].p
       /\ promises[calls[i].p].net <= 1

\* C2: once nothing is left to happen, a call whose answers were all rate-limit
\* signals has slept maxRetries backoff delays, has reached the network
\* maxRetries + 1 times and is rejected with the rate-limited error.
C2_RetryCeiling ==
  Quiescent =>
    \A p \in DOMAIN promises :
      promises[p].resp = "rl" =>
        /\ promises[p].st = "rejected"
        /\ promises[p].val = "RateLimited"
        /\ promises[p].naps = maxRetries
        /\ promises[p].net = maxRetries + 1

\* C3: once the upstream has answered every network request and every delay is
\* over, every call of fetchSleeperAPI has settled.
C3_BoundedWaiting ==
  Quiescent => \A p \in DOMAIN promises : promises[p].st # "pending"

\* C4: a call answered with a non-2xx, non-429 status is rejected with the
\* upstream error after exactly one network call and no backoff delay.
C4_NoRetryOnHttpError ==
  \A p \in DOMAIN promises :
    promises[p].resp = "http" =>
      /\ promises[p].st = "rejected"
      /\ promises[p].val = "UpstreamError"
      /\ promises[p].net = 1
      /\ promises[p].naps = 0
      /\ \A l \in loops : l.p # p

C4_Witness ==
  \E p \in DOMAIN promises :
    promises[p].resp = "http" /\ promises[p].st = "rejected" /\ promises[p].net = 1

\* C5: a call made less than cacheTTL after the endpoint's entry was inserted
\* is served that entry; a call made after the entry expired gets a fresh
\* promise, whose upstream request has been issued once nothing is left to
\* happen.
C5_CacheTTL ==
  \A j \in DOMAIN calls :
    /\ calls[j].live # {} => calls[j].p \in calls[j].live
    /\ (calls[j].timed = {} /\ calls[j].prior # {}) =>
         /\ calls[j].p \notin calls[j].prior
         /\ (Quiescent => promises[calls[j].p].net >= 1)

\* C6: at most one queued request function is executing, requests start in
\* the order they were enqueued, and a request starts at least minInterval
\* after the request before it.
C6_Pacing ==
  /\ Cardinality({l \in loops : l.st \in {"fetch", "backoff", "await"}}) <= 1
  /\ Len(started) <= Len(enq)
  /\ \A i \in DOMAIN started : started[i] = enq[i]
  /\ lastGap >= minInterval

\* A second request is held back by the pacing delay while the first one,
\* started less than minInterval ago, has already settled.
C6_Witness ==
  /\ Len(started) = 1
  /\ Len(queue) = 1
  /\ sinceLast < minInterval
  /\ \E l \in loops : l.st = "sleep" /\ l.left > 0

\* C7: a call of an exported fetcher with a league id outside allowedLeagueIds
\* is rejected with the not-allowed error, and no fetch() is issued for such
\* a league.
C7_AllowList ==
  /\ \A j \in DOMAIN calls :
       calls[j].req.leagueId \notin allowedLeagueIds =>
         /\ promises[calls[j].p].st = "rejected"
         /\ promises[calls[j].p].val = "NotAllowed"
  /\ \A i \in DOMAIN Wire : Wire[i][2] \in allowedLeagueIds

\* C8: the week in the path of every matchups or transactions request that is
\* issued lies in MinWeek..MaxWeek.
C8_WeekClamp ==
  \A i \in DOMAIN Wire :
    Len(Wire[i]) = 4 => Wire[i][4] \in MinWeek..MaxWeek

\* C9: as soon as a fetched week has data, getLatestWeekWithData returns that
\* week: the value returned is the smallest week with data.
C9_EarliestWeek ==
  wkFirstData # 0 =>
    /\ wkPc = "done"
    /\ wkVia = "scan"
    /\ wkResult = wkFirstData

\* Weeks 1 and 2 had no data, week 3 is the first with data and is returned.
C9_Witness ==
  /\ wkPc = "done"
  /\ wkCalc > 3
  /\ wkFirstData = 3
  /\ wkResult = 3

\* C10: a failed matchups fetch never leaves getLatestWeekWithData as an
\* exception: the scan goes on with the next week, the failed week is not the
\* one returned, and the value returned lies in MinWeek..MaxWeek.
C10_NeverFatal ==
  /\ wkPc # "threw"
  /\ (wkPc = "scan" /\ wkLastFailed # 0) => wkWeek > wkLastFailed
  /\ wkPc = "done" =>
       /\ wkResult \in MinWeek..MaxWeek
       /\ wkVia = "scan" => wkResult > wkLastFailed

\* The fetch of a week failed and the scan returned the week after it.
C10_Witness ==
  /\ wkPc = "done"
  /\ wkVia = "scan"
  /\ wkLastFailed # 0
  /\ wkResult = wkLastFailed + 1

\* C11: of two successive invocations of getLatestWeekWithData, made while the
\* clock only advances and the upstream only gains weeks with data, the later
\* one does not return a smaller week than the earlier one.
C11_Monotonic ==
  (wkPc = "done" /\ wkPrev # 0) => wkResult >= wkPrev

\* C12: when the scan found no week with data, the value returned is 1 if the
\* league's type is survivor or pick_em, and calculatedCurrentWeek otherwise.
C12_Fallback ==
  (wkPc = "done" /\ wkVia # "scan") =>
    IF wkLeague.kind = "league" /\ wkLeague.type \in {"survivor", "pick_em"}
      THEN wkResult = 1
      ELSE wkResult = wkCalc

\* C12, amended: when the scan found no week with data, the value returned is
\* 1 if the league's type is survivor or pick_em or if reading the league
\* failed, and calculatedCurrentWeek otherwise.
C12_FallbackOrDefault ==
  (wkPc = "done" /\ wkVia # "scan") =>
    /\ wkFirstData = 0
    /\ IF wkLeague.kind = "league" /\ wkLeague.type \in {"survivor", "pick_em"}
         THEN wkResult = 1
         ELSE IF wkLeague.kind \in {"reject", "null"}
           THEN wkResult = 1
           ELSE wkResult = wkCalc

\* No week up to week 3 had data and the league is a standard one: 3 is
\* returned.
C12_Witness ==
  /\ wkPc = "done"
  /\ wkFirstData = 0
  /\ wkCalc = 3
  /\ wkLeague = [kind |-> "league", type |-> "standard"]
  /\ wkResult = 3

\* C13: a call whose fetch() threw is rejected only after it has reached the
\* network maxRetries + 1 times, with maxRetries backoff delays in between.
C13_NetworkRetry ==
  \A p \in DOMAIN promises :
    (promises[p].resp = "net" /\ promises[p].st = "rejected") =>
      /\ promises[p].net = maxRetries + 1
      /\ promises[p].naps = maxRetries

\* C14: getStandingsData returns one row per roster it was given; a row with
\* more wins comes before a row with fewer, of two rows with equal wins the one
\* with more points-for comes first, and two rows equal on both are in the
\* order their rosters had in the input.
C14_StandingsOrder ==
  stPc = "done" =>
    /\ Len(standings) = Len(rosters)
    /\ \A r \in DOMAIN rosters : \E i \in DOMAIN standings : standings[i].rosterId = r
    /\ \A i, j \in DOMAIN standings :
         i < j =>
           \/ standings[i].wins > standings[j].wins
           \/ /\ standings[i].wins = standings[j].wins
              /\ standings[i].pointsFor > standings[j].pointsFor
           \/ /\ standings[i].wins = standings[j].wins
              /\ standings[i].pointsFor = standings[j].pointsFor
              /\ standings[i].rosterId < standings[j].rosterId

\* Three rosters, the first given with the fewest points-for and no owner that
\* resolves, the other two equal on wins and points-for: the first is last, with
\* the unknown names, and the other two kept their order.
C14_Witness ==
  /\ stPc = "done"
  /\ Len(standings) = 3
  /\ standings[3].rosterId = 1
  /\ standings[3].teamName = "Unknown Team"
  /\ standings[1].rosterId = 2
  /\ standings[2].rosterId = 3
  /\ standings[1].wins = standings[2].wins
  /\ standings[1].pointsFor = standings[2].pointsFor
  /\ standings[1].pointsFor > 0

\* C15: the points-for and points-against of a row are the integer half plus
\* the decimal half over 100, a missing half counting as zero and the other
\* half still counting.
C15_PointsEitherHalf ==
  stPc = "done" =>
    \A i \in DOMAIN standings :
      LET st == rosters[standings[i].rosterId].settings
      IN /\ standings[i].pointsFor =
              OrZero(st.fpts) * Hundredths + OrZero(st.fpts_decimal)
         /\ standings[i].pointsAgainst =
              OrZero(st.fpts_against) * Hundredths + OrZero(st.fpts_against_decimal)

\* C16: a side processMatchupsForDisplay built from an entry with points null
\* and no starters has isPreGame true and winProbability null, whatever the
\* other entry of its pair holds.
C16_PreGameNull ==
  dvPc = "display" =>
    \A t \in Sides :
      (EntryOf(t).points = None /\ ~HasStarters(EntryOf(t))) =>
        /\ t.isPreGame = Some(TRUE)
        /\ t.winProbability = None

\* C17: a side built from an entry with points 0 and a non-empty starters list,
\* by processMatchupsForDisplay or by processGuillotineStandings, has isPreGame
\* false and points 0.
C17_ZeroWithStarters ==
  \A t \in Sides :
    (EntryOf(t).points = Some(0) /\ HasStarters(EntryOf(t))) =>
      /\ t.isPreGame = Some(FALSE)
      /\ t.points = Some(0)

\* C18: in every ProcessedMatchup processMatchupsForDisplay returns, the second
\* side's winProbability is 1 minus the first side's when that is defined, and
\* null when it is null.
C18_Symmetry ==
  dvPc = "display" =>
    \A i \in DOMAIN processed :
      LET a == processed[i].teams[1].winProbability
          b == processed[i].teams[2].winProbability
      IN IF a = None THEN b = None
         ELSE Has(b) /\ Val(a) + Val(b) = 10000

\* 23.00 against 20.00 points: 0.74 for the first side, 0.26 for the second.
C18_Witness ==
  /\ dvPc = "display"
  /\ Len(processed) = 1
  /\ processed[1].teams[1].winProbability = Some(7400)
  /\ processed[1].teams[2].winProbability = Some(2600)

\* C19: every defined winProbability processMatchupsForDisplay computes lies
\* strictly between 0.10 and 0.90.
C19_StrictlyInside ==
  dvPc = "display" =>
    \A t \in Sides :
      Has(t.winProbability) =>
        Val(t.winProbability) > 1000 /\ Val(t.winProbability) < 9000

\* C20: given a matchups argument that is no array, processMatchupsForDisplay
\* and processGuillotineStandings do not throw and return an empty array.
C20_NonArray ==
  (dvPc # "idle" /\ ~IsArray(matchups)) =>
    /\ dvPc # "threw"
    /\ processed = << >>

\* processGuillotineStandings has returned for an argument that is an object.
C20_Witness ==
  /\ dvPc = "guillotine"
  /\ matchups.kind = "object"
  /\ processed = << >>

\* C21: in the table of a league in which every roster has scored, rank 1 is
\* the highest scorer, the last rank is the lowest scorer and the roster of
\* the last rank is in the chopped zone, whatever the number of rosters.
C21_LastIsChopped ==
  (table # << >> /\ \A i \in DOMAIN matchups.rows : OrZero(matchups.rows[i].points) > 0) =>
    /\ \A i \in DOMAIN table :
         /\ table[i].rank = i
         /\ Val(table[1].points) >= Val(table[i].points)
         /\ Val(table[Len(table)].points) <= Val(table[i].points)
    /\ table[Len(table)].zone = "chopped"

C23_ScanOrder ==
  /\ \A i \in DOMAIN wkLog : wkLog[i] = i
  /\ Len(wkLog) <= wkSettled + 1
  /\ wkPc = "done" => \A i \in DOMAIN wkLog : wkLog[i] <= wkResult

\* C23 amended: the requests are for weeks 1, 2, 3, ... in ascending order,
\* one at a time, and for no week greater than the provisional week; when the
\* scan returns a week with data that week is the last one requested, and when
\* the fallback returns, every week up to the provisional week was requested.
C23_ScanOrderWithinProvisional ==
  /\ \A i \in DOMAIN wkLog : wkLog[i] = i /\ wkLog[i] <= wkCalc
  /\ Len(wkLog) <= wkSettled + 1
  /\ wkPc = "scan" => Len(wkLog) = wkSettled + 1
  /\ (wkPc = "done" /\ wkVia = "scan") => wkLog[Len(wkLog)] = wkResult
  /\ (wkPc = "done" /\ wkVia # "scan") => Len(wkLog) = wkCalc /\ wkSettled = wkCalc

\* The fallback returned week 1 after the weeks 1 and 2 (at least) had been
\* requested one after the other.
C23_Witness ==
  /\ wkPc = "done"
  /\ wkVia = "special"
  /\ wkResult = 1
  /\ Len(wkLog) >= 2
  /\ wkSettled = Len(wkLog)

\* C24: processGuillotineStandings orders the rosters by score descending
\* (points, else projection) and equal scores by ascending roster id, gives
\* the placeholder ranks 1..N once each, and returns the same rows when two
\* entries of the input are exchanged (hence for every permutation of it).
C24_DeterministicRanking ==
  (dvPc = "guillotine" /\ IsArray(matchups)) =>
    LET Exchanged(a, b) ==
          ArrayOf([i \in DOMAIN matchups.rows |->
                     IF i = a THEN matchups.rows[b]
                     ELSE IF i = b THEN matchups.rows[a]
                     ELSE matchups.rows[i]])
    IN
    /\ Len(processed) = Len(matchups.rows)
    /\ \A i, j \in DOMAIN processed : i < j =>
         \/ GuillotineScore(processed[i].teams[1]) > GuillotineScore(processed[j].teams[1])
         \/ /\ GuillotineScore(processed[i].teams[1]) = GuillotineScore(processed[j].teams[1])
            /\ processed[i].teams[1].rosterId < processed[j].teams[1].rosterId
    /\ \A i \in DOMAIN processed : processed[i].teams[2].rank = i
    /\ \A a, b \in DOMAIN matchups.rows :
         ProcessGuillotineStandings(Exchanged(a, b), dvRosters, dvWeek).out = processed

\* Three rosters that did not come in the order of their ids were ranked, two
\* of them with the same score.
C24_Witness ==
  /\ dvPc = "guillotine"
  /\ Len(processed) = 3
  /\ matchups.rows[1].roster_id = 3
  /\ matchups.rows[2].roster_id = 2
  /\ GuillotineScore(processed[1].teams[1]) = GuillotineScore(processed[2].teams[1])
  /\ GuillotineScore(processed[2].teams[1]) > GuillotineScore(processed[3].teams[1])

\* C25: when the combined points of the two sides of a pair are below 10,
\* processMatchupsForDisplay gives both sides a null winProbability or both
\* sides 0.5.
C25_LowSignal ==
  dvPc = "display" =>
    \A k \in DOMAIN processed :
      LET t1 == processed[k].teams[1]
          t2 == processed[k].teams[2]
      IN OrZero(t1.points) + OrZero(t2.points) < 10 * Hundredths =>
           \/ t1.winProbability = None /\ t2.winProbability = None
           \/ t1.winProbability = Some(5000) /\ t2.winProbability = Some(5000)

\* C26: no call of fetchSleeperAPI is handed a promise of an earlier call for
\* the same endpoint that had already been rejected when the call was made: a
\* call that follows a rejection gets a new promise.
C26_NoStoredRejection ==
  \A j \in DOMAIN calls :
    ~ /\ calls[j].p \in calls[j].prior
      /\ calls[j].p \notin calls[j].inflight
      /\ promises[calls[j].p].st = "rejected"

\* C27: once the upstream has answered every network request and every delay
\* is over, every request that was not itself rate-limited (one enqueued
\* behind a rate-limited request, say) has been started and has settled, the
\* queue is empty and `processing` is false.
C27_NoStarvation ==
  Quiescent =>
    /\ \A p \in DOMAIN promises :
         promises[p].resp # "rl" =>
           /\ \E i \in DOMAIN started : started[i] = p
           /\ promises[p].st # "pending"
    /\ queue = << >>
    /\ ~processing

\* C28: whenever HomePage sets currentWeek or matchups from a run of
\* fetchMatchupData, the league that run was started for is the league shown.
C28_NoStaleOverwrite ==
  hpLast.what # "none" => hpLast.from = hpLast.shown

\* C29: the proxy issues an upstream fetch only for a path that starts with
\* /league/ or /draft/ and whose league id, for /league/{id}..., is in
\* allowedLeagueIds; the path fetched is the path requested; a request that
\* ended without a fetch was answered 400 or 403.
C29_Gatekeeping ==
  /\ pxFetched # << >> =>
       /\ Len(pxPath) >= 2
       /\ pxPath[1] \in {<<"league">>, <<"draft">>}
       /\ pxPath[1] = <<"league">> =>
            \E id \in allowedLeagueIds : pxPath[2] = <<id>>
       /\ pxFetched = PathOf(pxPath)
  /\ (pxPc = "done" /\ pxFetched = << >>) => pxStatus \in {400, 403}

\* A request for a league outside the allow-list was answered 403 without a
\* fetch.
C29_Witness ==
  /\ pxPc = "done"
  /\ pxStatus = 403
  /\ pxFetched = << >>
  /\ pxPath[1] = <<"league">>
  /\ pxPath[2] = <<OtherLeagueId>>

\* C30: every pending eviction timer belongs to the entry now cached under its
\* key and every entry has exactly one pending timer (so at most one timer is
\* pending per key); an entry leaves the cache only when its own timer, set
\* cacheTTL before, fires.
C30_EvictionPerEntry ==
  /\ [](/\ \A t \in evict : t.key \in DOMAIN requestCache /\ requestCache[t.key] = t.p
        /\ \A k \in DOMAIN requestCache : Cardinality({t \in evict : t.key = k}) = 1)
  /\ [][\A k \in DOMAIN requestCache :
          (k \notin DOMAIN requestCache' \/ requestCache'[k] # requestCache[k]) =>
            /\ k \notin DOMAIN requestCache'
            /\ \E t \in evict : /\ t.key = k
                                /\ t.p = requestCache[k]
                                /\ t.left = 0
                                /\ t \notin evict']_vars

\* An entry was evicted by its timer and a later entry for the same key is
\* cached with a timer of its own.
C30_Witness ==
  \E k \in DOMAIN requestCache :
    /\ \E q \in DOMAIN promises : q < requestCache[k] /\ promises[q].key = k
    /\ evict = {EvictTimer(k, requestCache[k])}

====
